---- MODULE Spec2Model ----
(***************************************************************************)
(* AutoConsolidado: the three consolidation scripts as one state machine.  *)
(*   modo = "inplace"  autocompletar_consolidado.py      (value copy)      *)
(*   modo = "stream"   autocompletar_consolidado_v0.2.py (streaming copy)  *)
(*   modo = "link"     autocompletar_consolidado_v1.0.py (link formulas)   *)
(* A cell value is None or a string; a string is a sequence of tokens, so  *)
(* that strip(), concatenation and path splitting are computed.            *)
(***************************************************************************)
EXTENDS Integers, Sequences, FiniteSets, TLC

\* ------------------------------------------------------------ bounds
\* Longest run of data rows (rows 6, 7, ...) a master sheet starts with.
MaxDataRows == 2

\* ------------------------------------------------------------ cell values
None == [k |-> "none", s |-> <<>>]

Str(s) == [k |-> "str", s |-> s]

\* Python truthiness of a cell value: None and "" are falsy.
Truthy(v) == v.k = "str" /\ v.s # <<>>

\* str(v)
PyStr(v) == IF v.k = "none" THEN <<"None">> ELSE v.s

IsSpace(t) == t = " "

RECURSIVE LStrip(_)
LStrip(s) == IF s # <<>> /\ IsSpace(Head(s)) THEN LStrip(Tail(s)) ELSE s

RECURSIVE RStrip(_)
RStrip(s) ==
  IF s # <<>> /\ IsSpace(s[Len(s)]) THEN RStrip(SubSeq(s, 1, Len(s) - 1)) ELSE s

\* str.strip()
Strip(s) == RStrip(LStrip(s))

\* ------------------------------------------------------------ configuration
COL_CODIGO == 4

FILA_INICIO == 6

FILA_INICIO_DATOS == 6

HOJAS_OBJETIVO == <<"EDU", "HOSP", "EMPRESA">>

ALFABETO ==
  <<"A", "B", "C", "D", "E", "F", "G", "H", "I", "J", "K", "L", "M",
    "N", "O", "P", "Q", "R", "S", "T", "U", "V", "W", "X", "Y", "Z">>

\* openpyxl.utils.column_index_from_string, for one-letter columns
column_index_from_string(letra) ==
  CHOOSE i \in 1..Len(ALFABETO) : ALFABETO[i] = letra

\* COLUMNAS_DESTINO of the value-copy scripts, in insertion order
COLUMNAS_DESTINO ==
  << [col |-> "F", celda |-> "N21"],
     [col |-> "G", celda |-> "N25"],
     [col |-> "I", celda |-> "N49"],
     [col |-> "K", celda |-> "N153"],
     [col |-> "M", celda |-> "N161"] >>

\* COLUMNAS_DESTINO of the link script: anchored references
COLUMNAS_DESTINO_LINK ==
  << [col |-> "F", celda |-> "$N$21"],
     [col |-> "G", celda |-> "$N$25"],
     [col |-> "I", celda |-> "$N$49"],
     [col |-> "K", celda |-> "$N$153"],
     [col |-> "M", celda |-> "$N$161"] >>

NOMBRE_HOJA_ORIGEN_FIJO == "Hoja1"

RUTA_ARCHIVOS_ORIGEN == <<"C:", "\\", "presupuestos">>

\* os.sep of the platform the fixed directory belongs to
SEP == "\\"

\* os.getcwd()
ruta_base == <<"cwd">>

\* ------------------------------------------------------------ paths
\* os.path.join(a, b) for a relative b
PathJoin(a, b) == IF a # <<>> /\ a[Len(a)] = SEP THEN a \o b ELSE a \o <<SEP>> \o b

\* index of the last separator token of p, 0 when there is none
LastSep(p) ==
  LET idx == {i \in 1..Len(p) : p[i] = SEP}
  IN  IF idx = {} THEN 0 ELSE CHOOSE i \in idx : \A j \in idx : j <= i

\* os.path.dirname
Dirname(p) == IF LastSep(p) = 0 THEN <<>> ELSE SubSeq(p, 1, LastSep(p) - 1)

\* os.path.basename
Basename(p) == SubSeq(p, LastSep(p) + 1, Len(p))

\* ------------------------------------------------------------ per-entity files
\* The files on disk.  Under the working directory: A.xlsx and D.xlsx open,
\* C.xlsx exists and cannot be loaded, E.xlsx opens and has no usable active
\* sheet; B.xlsx and .xlsx do not exist.  Under the fixed directory of the
\* link script only A.xlsx exists.
ArchivoA ==
  [abre |-> TRUE, activa |-> TRUE,
   celdas |-> [c \in {"N21", "N25", "N49", "N153", "N161"} |->
                 Str(<<"a", c>>)]]

ArchivoD ==
  [abre |-> TRUE, activa |-> TRUE,
   celdas |-> [c \in {"N21", "N25", "N49", "N153", "N161"} |->
                 IF c = "N49" THEN None ELSE Str(<<"d", c>>)]]

ArchivoC ==
  [abre |-> FALSE, activa |-> FALSE,
   celdas |-> [c \in {"N21", "N25", "N49", "N153", "N161"} |-> None]]

ArchivoE ==
  [abre |-> TRUE, activa |-> FALSE,
   celdas |-> [c \in {"N21", "N25", "N49", "N153", "N161"} |-> None]]

Disco ==
  (PathJoin(ruta_base, <<"A", ".xlsx">>) :> ArchivoA) @@
  (PathJoin(ruta_base, <<"D", ".xlsx">>) :> ArchivoD) @@
  (PathJoin(ruta_base, <<"C", ".xlsx">>) :> ArchivoC) @@
  (PathJoin(ruta_base, <<"E", ".xlsx">>) :> ArchivoE) @@
  (PathJoin(RUTA_ARCHIVOS_ORIGEN, <<"A", ".xlsx">>) :> ArchivoA)

\* os.path.isfile
isfile(ruta) == ruta \in DOMAIN Disco

\* wb.active[celda].value behind try/except: None on any fault
cargar_valor(archivo, celda) ==
  IF archivo.activa THEN archivo.celdas[celda] ELSE None

\* os.path.abspath: a path that starts at a drive is returned as is, any
\* other is joined to the working directory
abspath(p) == IF p # <<>> /\ p[1] = "C:" THEN p ELSE PathJoin(ruta_base, p)

\* ------------------------------------------------------------ the master file
Viejo == Str(<<"old">>)

\* A row of 14 cells: sheet name in A, the code in D, earlier content in E..N.
FilaLlena(hoja, codigo) ==
  [c \in 1..14 |->
     IF c = 1 THEN Str(<<hoja>>)
     ELSE IF c = COL_CODIGO THEN codigo
     ELSE IF c < COL_CODIGO THEN None ELSE Viejo]

\* The data rows a master sheet may hold.
Plantillas == 1..8

FilaDatos(hoja, t) ==
  CASE t = 1 -> <<Str(<<hoja>>), None, None>>
    [] t = 2 -> FilaLlena(hoja, None)
    [] t = 3 -> <<Str(<<hoja>>), None, None, Str(<<" ", "A", " ">>)>>
    [] t = 4 -> <<Str(<<hoja>>), None, None, Str(<<"B">>), Viejo, Viejo>>
    [] t = 5 -> FilaLlena(hoja, Str(<<"C">>))
    [] t = 6 -> FilaLlena(hoja, Str(<<"D">>))
    [] t = 7 -> <<Str(<<hoja>>), None, None, Str(<<" ">>)>>
    [] t = 8 -> FilaLlena(hoja, Str(<<"E">>))

\* Rows 1..5 of every sheet: four title rows of one cell, then a column-header
\* row whose column D holds a text that names an existing file.
Encabezados(hoja) ==
  [r \in 1..(FILA_INICIO_DATOS - 1) |->
     IF r < FILA_INICIO_DATOS - 1 THEN <<Str(<<hoja>>)>>
     ELSE <<Str(<<hoja>>), None, None, Str(<<"A">>), Viejo, Viejo>>]

Nombres == {"EDU", "HOSP", "EMPRESA", "OTRO"}

\* Sheet order of the master file (not the configured order).
OrdenMaestro == <<"EMPRESA", "OTRO", "EDU", "HOSP">>

EnSeq(x, s) == \E i \in 1..Len(s) : s[i] = x

RECURSIVE SeqsHasta(_, _)
SeqsHasta(S, n) ==
  IF n = 0 THEN {<<>>}
  ELSE LET prev == SeqsHasta(S, n - 1)
       IN  prev \cup {Append(q, x) : q \in {p \in prev : Len(p) = n - 1}, x \in S}

LibroVacio == [sheetnames |-> <<>>, hojas |-> [n \in Nombres |-> <<>>]]

VARIABLES
  modo,           \* which script runs
  estadoMaestro,  \* CONSOLIDADO.xlsx: "ausente", "corrupto" or "ok"
  presentes,      \* the sheets the master holds
  datos,          \* the data rows of every master sheet, as template numbers
  wb,             \* in-place and link: the loaded workbook
  wb_salida,      \* streaming: the output workbook
  lector,         \* streaming: wb_consolidado_lectura is open
  aperturas,      \* times load_workbook has opened the master file
  abiertos,       \* per-entity files whose archive is open now
  pico,           \* the most per-entity archives open at one time so far
  pc,             \* position in main
  hojaIdx,        \* index into HOJAS_OBJETIVO of the for loop
  fila,           \* row of the row loop (1-based)
  log,            \* the row status lines printed
  avisos,         \* the target sheets reported as not found, in print order
  exitCode,       \* process exit status, -1 while running
  guardado,       \* CONSOLIDADO_COMPLETADO.xlsx has been written
  fatal           \* the fatal path taken: "no", "ausente", "ilegible",
                  \* "IndexError", "lectura" or "guardar"

vars ==
  <<modo, estadoMaestro, presentes, datos, wb, wb_salida, lector, pc,
    hojaIdx, fila, log, avisos, exitCode, guardado, fatal, aperturas,
    abiertos, pico>>

\* The rows of sheet `hoja` of the master file.
HojaMaestro(hoja) ==
  Encabezados(hoja) \o [i \in 1..Len(datos) |-> FilaDatos(hoja, datos[i])]

\* wb.sheetnames of the master file
SheetnamesMaestro == SelectSeq(OrdenMaestro, LAMBDA n : n \in presentes)

Maestro ==
  [sheetnames |-> SheetnamesMaestro,
   hojas |-> [n \in Nombres |-> IF n \in presentes THEN HojaMaestro(n) ELSE <<>>]]

Init ==
  /\ modo \in {"inplace", "stream", "link"}
  /\ estadoMaestro \in {"ausente", "corrupto", "ok"}
  /\ presentes \in {P \in SUBSET Nombres : "OTRO" \in P}
  /\ datos \in SeqsHasta(Plantillas, MaxDataRows)
  /\ wb = LibroVacio
  /\ wb_salida = LibroVacio
  /\ lector = FALSE
  /\ aperturas = 0
  /\ abiertos = 0
  /\ pico = 0
  /\ pc = "inicio"
  /\ hojaIdx = 1
  /\ fila = 0
  /\ log = <<>>
  /\ avisos = <<>>
  /\ exitCode = -1
  /\ guardado = FALSE
  /\ fatal = "no"

\* ------------------------------------------------------------ row operations
\* Mutant of ColIndice: the column number is taken 0-based.
ColIndiceBaseCero(d) == column_index_from_string(d.col) - 1

\* value-copy scripts: 1-based list position of a destination column
ColIndice(d) == column_index_from_string(d.col)

\* v0.2 lines 197-198: while len(current_row_values) < col_index: append(None)
Rellenar(valores, col_index) ==
  IF Len(valores) >= col_index THEN valores
  ELSE valores \o [i \in 1..(col_index - Len(valores)) |-> None]

\* v0.2 lines 197-201: pad, then current_row_values[col_index - 1] = valor
AsignarLista(valores, col_index, valor) ==
  [Rellenar(valores, col_index) EXCEPT ![col_index] = valor]

\* v0.2 lines 192-201: the loop over COL_INDICES_DESTINO, from entry i on
RECURSIVE CopiarDestinosLista(_, _, _)
CopiarDestinosLista(valores, archivo, i) ==
  IF i > Len(COLUMNAS_DESTINO) THEN valores
  ELSE CopiarDestinosLista(
         AsignarLista(valores, ColIndice(COLUMNAS_DESTINO[i]),
                      cargar_valor(archivo, COLUMNAS_DESTINO[i].celda)),
         archivo, i + 1)

\* Mutant of EsEncabezado: the header block ends one row early, so the row
\* before the data-start row is taken for a data row.
EsEncabezadoCorto(r_idx) == r_idx + 2 < FILA_INICIO_DATOS

\* v0.2 line 164: rows before FILA_INICIO_DATOS are headers (r_idx is 0-based)
EsEncabezado(r_idx) == r_idx + 1 < FILA_INICIO_DATOS

\* v0.2 line 174: row_data[COL_CODIGO - 1] raises IndexError on a shorter row
TieneCeldaCodigo(row_data) == Len(row_data) >= COL_CODIGO

\* Mutant of CodigoStream: str() is applied without the `if value` guard.
CodigoStreamSinGuardia(row_data) == Strip(PyStr(row_data[COL_CODIGO]))

\* v0.2 line 176
CodigoStream(row_data) ==
  IF Truthy(row_data[COL_CODIGO]) THEN Strip(PyStr(row_data[COL_CODIGO]))
  ELSE <<>>

\* v0.2 lines 190-202: the file loaded, every destination column assigned
RamaCopiado(row_data, archivo) ==
  [valores |-> CopiarDestinosLista(row_data, archivo, 1), estado |-> "Copiado"]

\* Mutant of RamaErrorAlLeer: column F is reset before the fault is reported.
RamaErrorParcial(row_data) ==
  [valores |-> AsignarLista(row_data, 6, None), estado |-> "Error al leer"]

\* v0.2 lines 203-205: load_workbook raised; the row list is not touched
RamaErrorAlLeer(row_data) ==
  [valores |-> row_data, estado |-> "Error al leer"]

\* Mutant of RamaNoEncontrado: the destination columns are cleared on a miss.
RamaNoEncontradoLimpia(row_data) ==
  [valores |-> AsignarLista(AsignarLista(row_data, 6, None), 13, None),
   estado |-> "Archivo no encontrado"]

\* v0.2 lines 206-208: no such file; the row list is not touched
RamaNoEncontrado(row_data) ==
  [valores |-> row_data, estado |-> "Archivo no encontrado"]

\* v0.2 lines 179-181: no code; the row is appended as read, nothing printed
RamaSinCodigo(row_data) ==
  [valores |-> row_data, estado |-> ""]

\* v0.2 lines 176-211 for one data row that has a code cell: the row that is
\* appended and the status printed ("" when no line is printed).
ResultadoStream(row_data) ==
  LET codigo == CodigoStream(row_data)
      ruta_archivo_origen == PathJoin(ruta_base, codigo \o <<".xlsx">>)
      rama == IF codigo = <<>> THEN RamaSinCodigo(row_data)
              ELSE IF isfile(ruta_archivo_origen)
              THEN IF Disco[ruta_archivo_origen].abre
                   THEN RamaCopiado(row_data, Disco[ruta_archivo_origen])
                   ELSE RamaErrorAlLeer(row_data)
              ELSE RamaNoEncontrado(row_data)
  IN  [valores |-> rama.valores, estado |-> rama.estado, codigo |-> codigo]

\* Mutant of Anexar: the row is inserted at the top of the sheet.
AnexarAlInicio(filas, valores) == <<valores>> \o filas

\* ws_salida.append(current_row_values)
Anexar(filas, valores) == Append(filas, valores)

\* ws.cell(row, column).value of a loaded sheet.  The sheet is kept by its
\* values: a cell that ws.cell() creates holds None, and reads as None
\* whether it exists or not.
Celda(ws, r, c) ==
  IF r <= Len(ws) /\ c <= Len(ws[r]) THEN ws[r][c] ELSE None

\* ws.cell(row, column, value): openpyxl assigns only `if value is not None`,
\* so a None value leaves the cell as it was; any other value is stored, in
\* a cell created when the sheet has none.
PonerCelda(ws, r, c, valor) ==
  IF valor = None THEN ws
  ELSE LET filas == IF Len(ws) >= r THEN ws
                    ELSE ws \o [i \in 1..(r - Len(ws)) |-> <<>>]
       IN  [filas EXCEPT ![r] = AsignarLista(filas[r], c, valor)]

\* in-place lines 110-116: the loop over COLUMNAS_DESTINO, from entry i on
RECURSIVE CopiarDestinosHoja(_, _, _, _)
CopiarDestinosHoja(ws, r, archivo, i) ==
  IF i > Len(COLUMNAS_DESTINO) THEN ws
  ELSE CopiarDestinosHoja(
         PonerCelda(ws, r, ColIndice(COLUMNAS_DESTINO[i]),
                    cargar_valor(archivo, COLUMNAS_DESTINO[i].celda)),
         r, archivo, i + 1)

\* Mutant of FinDeDatos: the loop has no test of its code cell.
FinDeDatosNunca(ws, r) == FALSE

\* Mutant of FinDeDatos: the loop ends past the last row, not at a blank code.
FinDeDatosAlFinal(ws, r) == r > Len(ws)

\* in-place line 92: `if not codigo: break`
FinDeDatos(ws, r) == ~Truthy(Celda(ws, r, COL_CODIGO))

\* in-place lines 97-123 for row r, whose code cell is not empty
ResultadoInplace(ws, r) ==
  LET codigo == Strip(PyStr(Celda(ws, r, COL_CODIGO)))
      ruta_archivo == PathJoin(ruta_base, codigo \o <<".xlsx">>)
  IN  IF isfile(ruta_archivo)
      THEN IF Disco[ruta_archivo].abre
           THEN [ws |-> CopiarDestinosHoja(ws, r, Disco[ruta_archivo], 1),
                 estado |-> "Copiado", codigo |-> codigo]
           ELSE [ws |-> ws, estado |-> "Error al leer", codigo |-> codigo]
      ELSE [ws |-> ws, estado |-> "Archivo no encontrado", codigo |-> codigo]

\* v1.0 lines 109-111
PathParaFormula(directorio_origen) ==
  IF directorio_origen # <<>> /\ directorio_origen[Len(directorio_origen)] # SEP
  THEN directorio_origen \o <<SEP>>
  ELSE directorio_origen

\* v1.0 line 120
FormulaEnlace(path_para_formula, nombre_archivo_base, celda_origen_ref) ==
  Str(<<"='">> \o path_para_formula \o <<"[">> \o nombre_archivo_base
      \o <<"]", NOMBRE_HOJA_ORIGEN_FIJO, "'!", celda_origen_ref>>)

\* v1.0 lines 117-125: the loop over COLUMNAS_DESTINO, from entry i on
RECURSIVE EscribirFormulas(_, _, _, _, _)
EscribirFormulas(ws, r, path_para_formula, nombre_archivo_base, i) ==
  IF i > Len(COLUMNAS_DESTINO_LINK) THEN ws
  ELSE EscribirFormulas(
         PonerCelda(ws, r, ColIndice(COLUMNAS_DESTINO_LINK[i]),
                    FormulaEnlace(path_para_formula, nombre_archivo_base,
                                  COLUMNAS_DESTINO_LINK[i].celda)),
         r, path_para_formula, nombre_archivo_base, i + 1)

\* Mutant of ResultadoLink: the formulas are written only when the file exists.
ResultadoLinkSoloSiExiste(ws, r) ==
  LET codigo == Strip(PyStr(Celda(ws, r, COL_CODIGO)))
      ruta == abspath(PathJoin(RUTA_ARCHIVOS_ORIGEN, codigo \o <<".xlsx">>))
  IN  [ws |-> IF isfile(ruta)
              THEN EscribirFormulas(ws, r, PathParaFormula(Dirname(ruta)),
                                    Basename(ruta), 1)
              ELSE ws,
       estado |-> IF isfile(ruta) THEN "Formula ABSOLUTA anadida"
                  ELSE "Archivo de origen no encontrado, se anadio formula ABSOLUTA",
       codigo |-> codigo]

\* v1.0 lines 95-135 for row r, whose code cell is not empty
ResultadoLink(ws, r) ==
  LET codigo == Strip(PyStr(Celda(ws, r, COL_CODIGO)))
      ruta_absoluta_archivo_codigo ==
        abspath(PathJoin(RUTA_ARCHIVOS_ORIGEN, codigo \o <<".xlsx">>))
      directorio_origen == Dirname(ruta_absoluta_archivo_codigo)
      nombre_archivo_base == Basename(ruta_absoluta_archivo_codigo)
      archivo_existe == isfile(ruta_absoluta_archivo_codigo)
  IN  [ws |-> EscribirFormulas(ws, r, PathParaFormula(directorio_origen),
                               nombre_archivo_base, 1),
       estado |-> IF archivo_existe THEN "Formula ABSOLUTA anadida"
                  ELSE "Archivo de origen no encontrado, se anadio formula ABSOLUTA",
       codigo |-> codigo]

\* ------------------------------------------------------------ source handles
\* load_workbook(ruta, data_only=True) opens the archive of the entity's file.
AbrirOrigen(n) == n + 1

\* Mutant of CerrarOrigen: the archive stays open after the row (the file
\* loaded read-only and never closed).
CerrarOrigenNunca(n) == n

\* The same call does not load read-only: the archive is read in full and
\* closed before the call returns, and a load that raises gives up its
\* archive with the exception when the except clause ends.  The scripts
\* themselves never close wb_codigo.
CerrarOrigen(n) == n - 1

\* The row reached load_workbook: every such row prints one of these two.
SeAbrio(res) == res.estado \in {"Copiado", "Error al leer"}

\* Archives open once the row has been handled.
AbiertosTrasFila(n, res) ==
  IF SeAbrio(res) THEN CerrarOrigen(AbrirOrigen(n)) ELSE n

\* Largest number of archives open at one time, this row included.
PicoTrasFila(p, n, res) ==
  IF SeAbrio(res) /\ AbrirOrigen(n) > p THEN AbrirOrigen(n) ELSE p

\* ------------------------------------------------------------ main
Hoja == HOJAS_OBJETIVO[hojaIdx]

Linea(hoja, r, res) ==
  [hoja |-> hoja, fila |-> r, codigo |-> res.codigo, estado |-> res.estado]

\* os.path.exists on CONSOLIDADO.xlsx; when it is absent main returns.
VerificarMaestro ==
  /\ pc = "inicio"
  /\ IF estadoMaestro = "ausente"
     THEN /\ pc' = "fin"
          /\ exitCode' = 0
          /\ fatal' = "ausente"
     ELSE /\ pc' = "cargar"
          /\ UNCHANGED <<exitCode, fatal>>
  /\ UNCHANGED <<aperturas, abiertos, pico,
                 avisos, modo, estadoMaestro, presentes, datos, wb, wb_salida, lector,
                 hojaIdx, fila, log, guardado>>

\* Exit status when load_workbook on the master raises: v0.2 reaches
\* sys.exit(1) in its except clause, the other two scripts return from main.
SalidaMaestroIlegible == IF modo = "stream" THEN 1 ELSE 0

\* load_workbook on the master.
CargarMaestro ==
  /\ pc = "cargar"
  /\ IF estadoMaestro = "corrupto"
     THEN /\ pc' = "fin"
          /\ exitCode' = SalidaMaestroIlegible
          /\ fatal' = "ilegible"
          /\ UNCHANGED <<wb, lector, aperturas>>
     ELSE /\ pc' = "hojas"
          /\ aperturas' = aperturas + 1
          /\ IF modo = "stream"
             THEN lector' = TRUE /\ UNCHANGED wb
             ELSE wb' = Maestro /\ UNCHANGED lector
          /\ UNCHANGED <<exitCode, fatal>>
  /\ UNCHANGED <<abiertos, pico,
                 avisos, modo, estadoMaestro, presentes, datos, wb_salida, hojaIdx,
                 fila, log, guardado>>

\* wb_salida.create_sheet(title)
CrearHoja(libro, nombre) ==
  [libro EXCEPT !.sheetnames = Append(@, nombre)]

\* Mutant of TrasHojaAusente: `break` in place of `continue`.
TrasHojaAusenteBreak(i) == Len(HOJAS_OBJETIVO) + 1

\* `continue` on a sheet the master does not hold: the for loop takes the
\* next configured sheet.
TrasHojaAusente(i) == i + 1

\* Head of `for hoja in HOJAS_OBJETIVO`: an absent sheet is skipped, a present
\* one starts its row loop (v0.2 also creates the output sheet).
SiguienteHoja ==
  /\ pc = "hojas"
  /\ hojaIdx <= Len(HOJAS_OBJETIVO)
  /\ IF ~EnSeq(Hoja, SheetnamesMaestro)
     THEN /\ avisos' = Append(avisos, Hoja)
          /\ hojaIdx' = TrasHojaAusente(hojaIdx)
          /\ UNCHANGED <<pc, fila, wb_salida>>
     ELSE /\ pc' = "filas"
          /\ UNCHANGED <<hojaIdx, avisos>>
          /\ IF modo = "stream"
             THEN /\ fila' = 1
                  /\ wb_salida' =
                       IF EnSeq(Hoja, wb_salida.sheetnames) THEN wb_salida
                       ELSE CrearHoja(wb_salida, Hoja)
             ELSE /\ fila' = FILA_INICIO
                  /\ UNCHANGED wb_salida
  /\ UNCHANGED <<aperturas, abiertos, pico,
                 modo, estadoMaestro, presentes, datos, wb, lector, log,
                 exitCode, guardado, fatal>>

\* Mutant of Abortar: the exit of the except clause is taken without the
\* finally clause, so the reader stays open.
AbortarSinCerrar(causa) ==
  /\ pc' = "fin"
  /\ exitCode' = 1
  /\ fatal' = causa
  /\ UNCHANGED lector

\* v0.2 lines 230-245: a fault inside the try block: the reader is closed and
\* the process exits with status 1.
Abortar(causa) ==
  /\ pc' = "fin"
  /\ exitCode' = 1
  /\ fatal' = causa
  /\ lector' = FALSE

\* v0.2: one iteration of the row loop over ws_lectura.iter_rows.
FilaStream ==
  /\ modo = "stream"
  /\ pc = "filas"
  /\ fila <= Len(HojaMaestro(Hoja))
  /\ LET row_data == HojaMaestro(Hoja)[fila]
     IN  IF EsEncabezado(fila - 1)
         THEN /\ wb_salida' = [wb_salida EXCEPT !.hojas[Hoja] = Anexar(@, row_data)]
              /\ fila' = fila + 1
              /\ UNCHANGED <<log, pc, exitCode, fatal, lector, abiertos, pico>>
         ELSE IF ~TieneCeldaCodigo(row_data)
         THEN /\ Abortar("IndexError")
              /\ UNCHANGED <<wb_salida, fila, log, abiertos, pico>>
         ELSE LET res == ResultadoStream(row_data)
              IN  /\ wb_salida' =
                       [wb_salida EXCEPT !.hojas[Hoja] = Anexar(@, res.valores)]
                  /\ log' = IF res.estado = "" THEN log
                            ELSE Append(log, Linea(Hoja, fila, res))
                  /\ fila' = fila + 1
                  /\ abiertos' = AbiertosTrasFila(abiertos, res)
                  /\ pico' = PicoTrasFila(pico, abiertos, res)
                  /\ UNCHANGED <<pc, exitCode, fatal, lector>>
  /\ UNCHANGED <<aperturas,
                 avisos, modo, estadoMaestro, presentes, datos, wb, hojaIdx, guardado>>

\* v0.2: iter_rows is exhausted, "Fin de hoja".
FinHojaStream ==
  /\ modo = "stream"
  /\ pc = "filas"
  /\ fila > Len(HojaMaestro(Hoja))
  /\ pc' = "hojas"
  /\ hojaIdx' = hojaIdx + 1
  /\ UNCHANGED <<aperturas, abiertos, pico,
                 avisos, modo, estadoMaestro, presentes, datos, wb, wb_salida, lector,
                 fila, log, exitCode, guardado, fatal>>

\* v0.2: the lazily parsed master raises while a sheet is being iterated.
FalloLectura ==
  /\ modo = "stream"
  /\ lector
  /\ pc = "filas" \/ (pc = "hojas" /\ hojaIdx > Len(HOJAS_OBJETIVO))
  /\ Abortar("lectura")
  /\ UNCHANGED <<aperturas, abiertos, pico,
                 avisos, modo, estadoMaestro, presentes, datos, wb, wb_salida,
                 hojaIdx, fila, log, guardado>>

\* in-place script: one iteration of `while True` in procesar_hoja.
FilaInplace ==
  /\ modo = "inplace"
  /\ pc = "filas"
  /\ IF FinDeDatos(wb.hojas[Hoja], fila)
     THEN /\ pc' = "hojas"
          /\ hojaIdx' = hojaIdx + 1
          /\ UNCHANGED <<wb, fila, log, abiertos, pico>>
     ELSE LET res == ResultadoInplace(wb.hojas[Hoja], fila)
          IN  /\ wb' = [wb EXCEPT !.hojas[Hoja] = res.ws]
              /\ log' = Append(log, Linea(Hoja, fila, res))
              /\ fila' = fila + 1
              /\ abiertos' = AbiertosTrasFila(abiertos, res)
              /\ pico' = PicoTrasFila(pico, abiertos, res)
              /\ UNCHANGED <<pc, hojaIdx>>
  /\ UNCHANGED <<aperturas,
                 avisos, modo, estadoMaestro, presentes, datos, wb_salida, lector,
                 exitCode, guardado, fatal>>

\* link script: one iteration of `while True` in procesar_hoja.
FilaLink ==
  /\ modo = "link"
  /\ pc = "filas"
  /\ IF FinDeDatos(wb.hojas[Hoja], fila)
     THEN /\ pc' = "hojas"
          /\ hojaIdx' = hojaIdx + 1
          /\ UNCHANGED <<wb, fila, log>>
     ELSE LET res == ResultadoLink(wb.hojas[Hoja], fila)
          IN  /\ wb' = [wb EXCEPT !.hojas[Hoja] = res.ws]
              /\ log' = Append(log, Linea(Hoja, fila, res))
              /\ fila' = fila + 1
              /\ UNCHANGED <<pc, hojaIdx>>
  /\ UNCHANGED <<aperturas, abiertos, pico,
                 avisos, modo, estadoMaestro, presentes, datos, wb_salida, lector,
                 exitCode, guardado, fatal>>

\* Mutant of CopiarNoProcesadas: the sheet is created and its rows are not
\* appended.
RECURSIVE CopiarNoProcesadasSinFilas(_, _)
CopiarNoProcesadasSinFilas(libro, i) ==
  IF i > Len(SheetnamesMaestro) THEN libro
  ELSE LET n == SheetnamesMaestro[i]
       IN  IF ~EnSeq(n, HOJAS_OBJETIVO) /\ ~EnSeq(n, libro.sheetnames)
           THEN CopiarNoProcesadasSinFilas(CrearHoja(libro, n), i + 1)
           ELSE CopiarNoProcesadasSinFilas(libro, i + 1)

\* v0.2 lines 218-228: the sheets to copy, in master order, from entry i on
RECURSIVE CopiarNoProcesadas(_, _)
CopiarNoProcesadas(libro, i) ==
  IF i > Len(SheetnamesMaestro) THEN libro
  ELSE LET n == SheetnamesMaestro[i]
       IN  IF ~EnSeq(n, HOJAS_OBJETIVO) /\ ~EnSeq(n, libro.sheetnames)
           THEN CopiarNoProcesadas(
                  [CrearHoja(libro, n) EXCEPT !.hojas[n] = HojaMaestro(n)], i + 1)
           ELSE CopiarNoProcesadas(libro, i + 1)

\* v0.2: after the target sheets, copy the other sheets; then `finally`
\* closes the reader.
CopiarHojas ==
  /\ modo = "stream"
  /\ pc = "hojas"
  /\ hojaIdx > Len(HOJAS_OBJETIVO)
  /\ wb_salida' = CopiarNoProcesadas(wb_salida, 1)
  /\ lector' = FALSE
  /\ pc' = "guardar"
  /\ UNCHANGED <<aperturas, abiertos, pico,
                 avisos, modo, estadoMaestro, presentes, datos, wb, hojaIdx, fila, log,
                 exitCode, guardado, fatal>>

\* Mutant of ListoParaGuardar: the except clause of v0.2 does not exit, so
\* the save step also follows a fault of the processing phase.
ListoParaGuardarTrasFallo ==
  IF modo = "stream"
  THEN pc = "guardar" \/ (pc = "fin" /\ fatal \in {"IndexError", "lectura"} /\ ~guardado)
  ELSE pc = "hojas" /\ hojaIdx > Len(HOJAS_OBJETIVO)

\* The save step is reached: v0.2 after its try/finally, the other two
\* scripts after the loop over the target sheets.
ListoParaGuardar ==
  IF modo = "stream" THEN pc = "guardar"
  ELSE pc = "hojas" /\ hojaIdx > Len(HOJAS_OBJETIVO)

\* save succeeds: the output file is written and main returns.
GuardarOk ==
  /\ ListoParaGuardar
  /\ guardado' = TRUE
  /\ pc' = "fin"
  /\ exitCode' = 0
  /\ UNCHANGED <<aperturas, abiertos, pico,
                 avisos, modo, estadoMaestro, presentes, datos, wb, wb_salida, lector,
                 hojaIdx, fila, log, fatal>>

\* Exit status when save raises: v0.2 calls sys.exit(1), the other two
\* scripts print the error and return from main.
SalidaGuardarFalla == IF modo = "stream" THEN 1 ELSE 0

\* save raises (the output is locked or not writable).
GuardarFalla ==
  /\ ListoParaGuardar
  /\ pc' = "fin"
  /\ exitCode' = SalidaGuardarFalla
  /\ fatal' = "guardar"
  /\ UNCHANGED <<aperturas, abiertos, pico,
                 avisos, modo, estadoMaestro, presentes, datos, wb, wb_salida, lector,
                 hojaIdx, fila, log, guardado>>

Next ==
  \/ VerificarMaestro
  \/ CargarMaestro
  \/ SiguienteHoja
  \/ FilaStream
  \/ FinHojaStream
  \/ FalloLectura
  \/ FilaInplace
  \/ FilaLink
  \/ CopiarHojas
  \/ GuardarOk
  \/ GuardarFalla

Spec == Init /\ [][Next]_vars

\* ------------------------------------------------------------ properties
\* What the properties are stated over: the master file as given, the
\* destination columns F, G, I, K, M by number, and the data-row templates.
Objetivos == {"EDU", "HOSP", "EMPRESA"}

ColumnasDestino == {6, 7, 9, 11, 13}

PosObjetivo(s) == CHOOSE i \in 1..Len(HOJAS_OBJETIVO) : HOJAS_OBJETIVO[i] = s

\* The pass over target sheet s has ended normally.
Completa(s) == s \in presentes /\ PosObjetivo(s) < hojaIdx

\* The row loop is inside target sheet s.
EnCurso(s) == pc = "filas" /\ hojaIdx <= Len(HOJAS_OBJETIVO) /\ Hoja = s

\* Template of master row r (r >= 6) of any sheet.
Plantilla(r) == datos[r - (FILA_INICIO_DATOS - 1)]

UltimaFila == (FILA_INICIO_DATOS - 1) + Len(datos)

FilasDatos == FILA_INICIO_DATOS..UltimaFila

\* The code cell of a row of template t is empty or missing.
CeldaVacia(t) == t \in {1, 2}

\* The trimmed code of a row of template t.
CodigoPlantilla(t) ==
  CASE t = 3 -> <<"A">>
    [] t = 4 -> <<"B">>
    [] t = 5 -> <<"C">>
    [] t = 6 -> <<"D">>
    [] t = 8 -> <<"E">>
    [] OTHER -> <<>>

\* First row at or after the data start whose code cell is empty.
PrimerVacio ==
  CHOOSE r \in FILA_INICIO_DATOS..(UltimaFila + 1) :
    /\ r = UltimaFila + 1 \/ CeldaVacia(Plantilla(r))
    /\ \A q \in FILA_INICIO_DATOS..(r - 1) : ~CeldaVacia(Plantilla(q))

\* The sheet of s in the workbook that will be saved.
HojaSalida(s) == IF modo = "stream" THEN wb_salida.hojas[s] ELSE wb.hojas[s]

\* Data rows of target sheet s the row loop has handled so far.
Procesadas(s) ==
  IF modo = "stream" THEN FILA_INICIO_DATOS..Len(wb_salida.hojas[s])
  ELSE IF Completa(s) THEN FILA_INICIO_DATOS..(PrimerVacio - 1)
  ELSE IF EnCurso(s) THEN FILA_INICIO_DATOS..(fila - 1)
  ELSE {}

\* A status line was printed for row r of sheet s.
Impresa(s, r) == \E i \in 1..Len(log) : log[i].hoja = s /\ log[i].fila = r

ImpresaCon(s, r, codigo, estado) ==
  \E i \in 1..Len(log) :
    log[i] = [hoja |-> s, fila |-> r, codigo |-> codigo, estado |-> estado]

\* Output row o comes from source row f: no cell lost, and every cell outside
\* the destination columns as in f.
DeFila(o, f) ==
  /\ Len(o) >= Len(f)
  /\ \A c \in 1..Len(f) : c \notin ColumnasDestino => o[c] = f[c]

\* C1: streaming mode: the output sheet of every target sheet holds one row
\* per source row read so far, row i made from source row i, and all of the
\* source rows once the pass over the sheet has ended.
C1_UnaFilaPorFilaEnOrden ==
  modo = "stream" =>
    \A s \in Objetivos :
      LET src == HojaMaestro(s)
          out == wb_salida.hojas[s]
      IN  /\ Len(out) <= Len(src)
          /\ EnCurso(s) => Len(out) = fila - 1
          /\ Completa(s) => Len(out) = Len(src)
          /\ \A i \in 1..Len(out) : i <= Len(src) /\ DeFila(out[i], src[i])

\* A pass has ended over a sheet that holds a blank-code row and a copied row.
C1_Witness ==
  /\ modo = "stream"
  /\ Completa("EDU")
  /\ Len(datos) = 2
  /\ \E r \in FilasDatos : Plantilla(r) = 2
  /\ \E r \in FilasDatos : ImpresaCon("EDU", r, <<"A">>, "Copiado")

\* C2: streaming mode: a data row whose code cell is empty is appended as it
\* was read and no file is looked up for it, and when the pass ends every
\* later row with a code has been evaluated.
C2_FilaSinCodigoPasaIgual ==
  modo = "stream" =>
    \A s \in Objetivos :
      /\ \A r \in Procesadas(s) :
           Plantilla(r) = 2 =>
             /\ wb_salida.hojas[s][r] = HojaMaestro(s)[r]
             /\ ~Impresa(s, r)
      /\ Completa(s) =>
           \A r \in FilasDatos :
             ((\E b \in FILA_INICIO_DATOS..(r - 1) : Plantilla(b) = 2)
               /\ CodigoPlantilla(Plantilla(r)) # <<>>)
             => r \in Procesadas(s) /\ Impresa(s, r)

\* A blank-code row came first and the row after it was looked up.
C2_Witness ==
  /\ modo = "stream"
  /\ Completa("EDU")
  /\ Len(datos) = 2
  /\ Plantilla(FILA_INICIO_DATOS) = 2
  /\ Impresa("EDU", FILA_INICIO_DATOS + 1)

\* The status lines of sheet s name the rows 6, 7, ... in increasing order.
FilasImpresas(s) ==
  LET lineas == SelectSeq(log, LAMBDA l : l.hoja = s)
  IN  \A i \in 1..Len(lineas) : lineas[i].fila = FILA_INICIO_DATOS + i - 1

\* C3: in-place and link mode: rows are visited in increasing order from the
\* data-start row, the pass ends at the first row whose code cell is empty,
\* and that row and every later row are neither looked up nor written.
C3_ParaEnPrimerVacio ==
  modo \in {"inplace", "link"} =>
    \A s \in Objetivos :
      /\ FilasImpresas(s)
      /\ \A r \in FilasDatos :
           r >= PrimerVacio =>
             /\ ~Impresa(s, r)
             /\ wb.hojas[s] # <<>> => wb.hojas[s][r] = HojaMaestro(s)[r]
      /\ wb.hojas[s] # <<>> => Len(wb.hojas[s]) = Len(HojaMaestro(s))
      /\ Completa(s) =>
           \A r \in FILA_INICIO_DATOS..(PrimerVacio - 1) : Impresa(s, r)

\* A pass ended at a blank code cell that is followed by a row with a code.
C3_Witness ==
  /\ modo \in {"inplace", "link"}
  /\ Completa("EDU")
  /\ Len(datos) = 2
  /\ Plantilla(FILA_INICIO_DATOS) = 2
  /\ CodigoPlantilla(Plantilla(FILA_INICIO_DATOS + 1)) # <<>>

\* Source address of destination column c, and the value file `codigo`.xlsx
\* holds there (None: an empty cell, or no active sheet to read from).
DireccionDe(c) ==
  CASE c = 6 -> "N21" [] c = 7 -> "N25" [] c = 9 -> "N49"
    [] c = 11 -> "N153" [] c = 13 -> "N161"

ValorEsperado(codigo, direccion) ==
  CASE codigo = <<"A">> -> Str(<<"a", direccion>>)
    [] codigo = <<"D">> ->
         IF direccion = "N49" THEN None ELSE Str(<<"d", direccion>>)
    [] codigo = <<"E">> -> None

\* The next data row carries a code, and the pass over s has ended.
SigueCon(s, r) ==
  (Completa(s) /\ r + 1 <= UltimaFila /\ CodigoPlantilla(Plantilla(r + 1)) # <<>>)
    => Impresa(s, r + 1)

\* C4: value-copy modes: a processed row whose file exists and opens is
\* reported Copiado and holds in F, G, I, K, M the values at N21, N25, N49,
\* N153, N161 of its own file, empty where the address cannot be read.
C4_ValoresCopiados ==
  modo \in {"inplace", "stream"} =>
    \A s \in Objetivos :
      \A r \in Procesadas(s) :
        LET codigo == CodigoPlantilla(Plantilla(r))
        IN  codigo \in {<<"A">>, <<"D">>, <<"E">>} =>
              /\ ImpresaCon(s, r, codigo, "Copiado")
              /\ \A c \in ColumnasDestino :
                   /\ c <= Len(HojaSalida(s)[r])
                   /\ HojaSalida(s)[r][c] = ValorEsperado(codigo, DireccionDe(c))

\* C5: value-copy modes: a processed row whose file does not exist is
\* reported not found, is left exactly as in the input, and the next row is
\* processed.
C5_NoEncontradoNoCambia ==
  modo \in {"inplace", "stream"} =>
    \A s \in Objetivos :
      \A r \in Procesadas(s) :
        Plantilla(r) = 4 =>
          /\ ImpresaCon(s, r, <<"B">>, "Archivo no encontrado")
          /\ HojaSalida(s)[r] = HojaMaestro(s)[r]
          /\ SigueCon(s, r)

\* A row without file was followed by a row that was looked up.
C5_Witness ==
  /\ modo \in {"inplace", "stream"}
  /\ ImpresaCon("EDU", FILA_INICIO_DATOS, <<"B">>, "Archivo no encontrado")
  /\ Impresa("EDU", FILA_INICIO_DATOS + 1)

\* The anchored reference the link script writes in destination column c.
ReferenciaAnclada(c) ==
  CASE c = 6 -> "$N$21" [] c = 7 -> "$N$25" [] c = 9 -> "$N$49"
    [] c = 11 -> "$N$153" [] c = 13 -> "$N$161"

FormulaEsperada(codigo, c) ==
  Str(<<"='", "C:", "\\", "presupuestos", "\\", "[">> \o codigo
      \o <<".xlsx", "]", "Hoja1", "'!", ReferenciaAnclada(c)>>)

\* C6: link mode: every processed row holds in F, G, I, K, M the external
\* reference to the fixed directory, <code>.xlsx, the fixed sheet and the
\* anchored cell, whether or not the file exists; existence only selects the
\* status printed.
C6_FormulaSiempre ==
  modo = "link" =>
    \A s \in Objetivos :
      \A r \in Procesadas(s) :
        LET codigo == CodigoPlantilla(Plantilla(r))
        IN  /\ ImpresaCon(s, r, codigo,
                 IF codigo = <<"A">> THEN "Formula ABSOLUTA anadida"
                 ELSE "Archivo de origen no encontrado, se anadio formula ABSOLUTA")
            /\ \A c \in ColumnasDestino :
                 /\ c <= Len(wb.hojas[s][r])
                 /\ wb.hojas[s][r][c] = FormulaEsperada(codigo, c)

\* A row whose file exists and a row whose file does not were both linked.
C6_Witness ==
  /\ modo = "link"
  /\ ImpresaCon("EDU", FILA_INICIO_DATOS, <<"A">>, "Formula ABSOLUTA anadida")
  /\ ImpresaCon("EDU", FILA_INICIO_DATOS + 1, <<"B">>,
       "Archivo de origen no encontrado, se anadio formula ABSOLUTA")

\* C7: value-copy modes: a processed row whose file exists and cannot be
\* loaded is reported Error al leer, is left exactly as in the input, is kept
\* in the output, and the next row is processed.
C7_ErrorAlLeerNoCambia ==
  modo \in {"inplace", "stream"} =>
    \A s \in Objetivos :
      \A r \in Procesadas(s) :
        Plantilla(r) = 5 =>
          /\ ImpresaCon(s, r, <<"C">>, "Error al leer")
          /\ r <= Len(HojaSalida(s))
          /\ HojaSalida(s)[r] = HojaMaestro(s)[r]
          /\ SigueCon(s, r)

\* A row whose file cannot be loaded was followed by a copied row.
C7_Witness ==
  /\ modo \in {"inplace", "stream"}
  /\ ImpresaCon("EDU", FILA_INICIO_DATOS, <<"C">>, "Error al leer")
  /\ ImpresaCon("EDU", FILA_INICIO_DATOS + 1, <<"D">>, "Copiado")

\* C8: reading the lookup column of a row shorter than that column never
\* fails: the row is handled as a blank-code row and the run is not aborted.
C8_FilaCortaNoAborta ==
  \A s \in Objetivos :
    \A r \in FilasDatos :
      (s \in presentes /\ Len(HojaMaestro(s)[r]) < COL_CODIGO)
        => ~(pc = "fin" /\ fatal = "IndexError" /\ Hoja = s /\ fila = r)

\* C9: a fatal fault at the workbook level ends the run before the save step:
\* nothing runs after it and the output file is not written; the output file
\* is written only after every present target sheet has been passed over
\* (and, in streaming mode, every other sheet copied).
C9_FatalNoGuarda ==
  /\ fatal \in {"ausente", "ilegible", "IndexError", "lectura"} =>
       pc = "fin" /\ ~guardado
  /\ fatal \in {"ausente", "ilegible"} =>
       log = <<>> /\ wb = LibroVacio /\ wb_salida = LibroVacio
  /\ pc = "fin" => ~ENABLED Next
  /\ guardado =>
       /\ fatal = "no"
       /\ hojaIdx > Len(HOJAS_OBJETIVO)
       /\ \A s \in Objetivos \cap presentes : Completa(s)
       /\ modo = "stream" =>
            \A n \in presentes : EnSeq(n, wb_salida.sheetnames)

\* A fault ended a streaming run that had already built output rows.
C9_Witness ==
  /\ pc = "fin"
  /\ fatal \in {"IndexError", "lectura"}
  /\ \E s \in Objetivos : Len(wb_salida.hojas[s]) >= FILA_INICIO_DATOS
  /\ ~guardado

\* C10: the exit status is non-zero on every fatal path (master missing,
\* master unreadable, output unwritable) and zero otherwise.
C10_SalidaNoCeroEnFatal ==
  pc = "fin" => (exitCode # 0 <=> fatal # "no")

\* The configured sheets the for loop has gone past, in configured order.
Pasadas == SubSeq(HOJAS_OBJETIVO, 1, hojaIdx - 1)

\* Target sheet s is given to the row loop now or was given to it before.
Entregada(s) ==
  /\ s \in Objetivos
  /\ \/ PosObjetivo(s) < hojaIdx
     \/ PosObjetivo(s) = hojaIdx /\ (pc = "filas" \/ fatal \in {"IndexError", "lectura"})

\* C11: whatever target sheets the master lacks, each one is reported and
\* skipped, in configured order, without creating anything for it and without
\* a fault; the present target sheets are passed over in configured order,
\* all of them before the save step, and the save step is the next step once
\* the loop over the configured sheets has ended.
C11_HojasAusentesSeSaltan ==
  /\ avisos = SelectSeq(Pasadas, LAMBDA n : n \notin presentes)
  /\ \A s \in Objetivos \ presentes :
       /\ ~Impresa(s, FILA_INICIO_DATOS) /\ \A r \in FilasDatos : ~Impresa(s, r)
       /\ ~EnSeq(s, wb_salida.sheetnames)
       /\ wb_salida.hojas[s] = <<>> /\ wb.hojas[s] = <<>>
       /\ ~Entregada(s) \/ PosObjetivo(s) < hojaIdx
       /\ (pc = "hojas" /\ hojaIdx <= Len(HOJAS_OBJETIVO) /\ Hoja = s)
            => fatal = "no" /\ ENABLED SiguienteHoja
  /\ fatal \in {"IndexError", "lectura"} =>
       hojaIdx > Len(HOJAS_OBJETIVO) \/ Hoja \in presentes
  /\ \A i, j \in 1..Len(log) :
       i < j => PosObjetivo(log[i].hoja) <= PosObjetivo(log[j].hoja)
  /\ modo = "stream" =>
       SelectSeq(wb_salida.sheetnames, LAMBDA n : n \in Objetivos)
         = SelectSeq(HOJAS_OBJETIVO, LAMBDA n : n \in presentes /\ Entregada(n))
  /\ (pc = "hojas" /\ hojaIdx > Len(HOJAS_OBJETIVO)) =>
       /\ fatal = "no"
       /\ IF modo = "stream" THEN ENABLED CopiarHojas ELSE ENABLED GuardarOk
  /\ ListoParaGuardar =>
       /\ fatal = "no"
       /\ ENABLED GuardarOk
       /\ \A s \in Objetivos \cap presentes :
            /\ Completa(s)
            /\ IF modo = "stream"
               THEN Len(wb_salida.hojas[s]) = Len(HojaMaestro(s))
               ELSE \A r \in FILA_INICIO_DATOS..(PrimerVacio - 1) : Impresa(s, r)

\* Only the second configured sheet is present: it was passed over after one
\* warning and before the other, and the output was saved.
C11_Witness ==
  /\ guardado
  /\ Objetivos \cap presentes = {"HOSP"}
  /\ avisos = <<"EDU", "EMPRESA">>
  /\ Impresa("HOSP", FILA_INICIO_DATOS)

\* The copy of the sheets that are not targets has run.
Copiadas == modo = "stream" /\ (pc = "guardar" \/ guardado \/ fatal = "guardar")

\* C12: streaming mode: a master sheet that is not a target is copied only
\* after the passes over all target sheets, under its own name and with the
\* rows of the master in order; the sheets built by the passes are left as
\* they were; once the copy has run the output holds exactly the sheets of
\* the master (targets in configured order, then the others in master
\* order), and no name is ever held twice.
C12_OtrasHojasCopiadas ==
  modo = "stream" =>
    /\ \A n \in Nombres \ Objetivos :
         IF EnSeq(n, wb_salida.sheetnames)
         THEN /\ Copiadas
              /\ hojaIdx > Len(HOJAS_OBJETIVO)
              /\ \A s \in Objetivos \cap presentes :
                   Completa(s) /\ Len(wb_salida.hojas[s]) = Len(HojaMaestro(s))
              /\ wb_salida.hojas[n] = HojaMaestro(n)
         ELSE wb_salida.hojas[n] = <<>> /\ ~Copiadas
    /\ \A i, j \in 1..Len(wb_salida.sheetnames) :
         i # j => wb_salida.sheetnames[i] # wb_salida.sheetnames[j]
    /\ Copiadas =>
         /\ {wb_salida.sheetnames[i] : i \in 1..Len(wb_salida.sheetnames)}
              = {SheetnamesMaestro[i] : i \in 1..Len(SheetnamesMaestro)}
         /\ wb_salida.sheetnames
              = SelectSeq(HOJAS_OBJETIVO, LAMBDA n : n \in presentes)
                  \o SelectSeq(SheetnamesMaestro, LAMBDA n : n \notin Objetivos)
         /\ \A s \in Objetivos, r \in FilasDatos :
              ImpresaCon(s, r, <<"A">>, "Copiado") =>
                wb_salida.hojas[s][r][6] = Str(<<"a", "N21">>)

\* A saved streaming run whose output holds two target sheets, one with a
\* copied row, and the sheet that is not a target.
C12_Witness ==
  /\ modo = "stream"
  /\ guardado
  /\ Objetivos \cap presentes = {"EDU", "EMPRESA"}
  /\ Len(wb_salida.hojas["OTRO"]) = UltimaFila
  /\ Len(datos) = 2
  /\ \E r \in FilasDatos : ImpresaCon("EMPRESA", r, <<"A">>, "Copiado")

\* C13: streaming mode: every row above the data-start row is appended to the
\* output exactly as read and nothing is looked up for it, also the header
\* row whose lookup column holds the name of a file that exists.
C13_EncabezadosTalCual ==
  modo = "stream" =>
    \A s \in Objetivos :
      /\ \A r \in 1..(FILA_INICIO_DATOS - 1) :
           /\ ~Impresa(s, r)
           /\ r <= Len(wb_salida.hojas[s]) => wb_salida.hojas[s][r] = HojaMaestro(s)[r]
      /\ (Completa(s) \/ (EnCurso(s) /\ fila >= FILA_INICIO_DATOS)) =>
           Len(wb_salida.hojas[s]) >= FILA_INICIO_DATOS - 1

\* The header row that names A.xlsx in the lookup column has been appended,
\* and so has a data row that was looked up.
C13_Witness ==
  /\ modo = "stream"
  /\ Len(wb_salida.hojas["EDU"]) >= FILA_INICIO_DATOS
  /\ isfile(PathJoin(ruta_base,
         Strip(HojaMaestro("EDU")[FILA_INICIO_DATOS - 1][COL_CODIGO].s) \o <<".xlsx">>))
  /\ Impresa("EDU", FILA_INICIO_DATOS)

\* A status line that tells the row's file was opened.
LineasAbiertas == SelectSeq(log, LAMBDA l : l.estado \in {"Copiado", "Error al leer"})

C15_LectorCerradoAlSalir ==
  /\ aperturas <= 1
  /\ lector => modo = "stream" /\ aperturas = 1 /\ pc \in {"hojas", "filas"}
  /\ pc \in {"guardar", "fin"} => ~lector
  /\ ListoParaGuardar => ~lector
  /\ (pc \in {"hojas", "filas", "guardar"} \/ guardado
        \/ fatal \in {"IndexError", "lectura", "guardar"}) => aperturas = 1
  /\ (modo = "stream" /\ pc \in {"hojas", "filas"}) => lector

\* A streaming run ended by a read fault in the middle of a sheet, after the
\* reader had been opened.
C15_Witness ==
  /\ modo = "stream"
  /\ pc = "fin"
  /\ fatal = "lectura"
  /\ aperturas = 1
  /\ hojaIdx <= Len(HOJAS_OBJETIVO)
  /\ Len(wb_salida.hojas[Hoja]) >= FILA_INICIO_DATOS

\* The code cell of a row of template t holds nothing but whitespace.
SoloEspacios(t) == t = 7

\* C16: in every mode the code a file name is built from is trimmed and not
\* empty: a row whose code cell is empty or holds only whitespace is not
\* looked up (no '.xlsx' is resolved for it) and its destination columns are
\* not written.
C16_CodigoRecortadoNoVacio ==
  /\ \A i \in 1..Len(log) :
       log[i].codigo # <<>> /\ log[i].codigo = Strip(log[i].codigo)
  /\ \A s \in Objetivos :
       \A r \in FilasDatos :
         (CeldaVacia(Plantilla(r)) \/ SoloEspacios(Plantilla(r))) =>
           /\ ~Impresa(s, r)
           /\ r <= Len(HojaSalida(s)) => HojaSalida(s)[r] = HojaMaestro(s)[r]

\* Row o is row f with nothing changed outside the destination columns: the
\* cells of f keep their values and a cell added by padding is empty.
FilaCambiada(o, f) ==
  /\ Len(o) >= Len(f)
  /\ \A c \in 1..Len(o) :
       c \notin ColumnasDestino => o[c] = (IF c <= Len(f) THEN f[c] ELSE None)

\* The step handles row `fila` of the sheet in course.
PasoDeFila == pc = "filas" /\ pc' = "filas" /\ fila' = fila + 1

\* C17: in all three modes the handling of a row changes nothing but the
\* destination columns F, G, I, K, M of that row: its code column and other
\* columns, every other row of the sheet and every other sheet stay as they
\* were (in streaming mode: the row appended differs from the row read in
\* those columns only, and the rows appended before stay as they were).
C17_SoloColumnasDestino ==
  [][PasoDeFila =>
       LET antes == IF modo = "stream" THEN wb_salida ELSE wb
           despues == IF modo = "stream" THEN wb_salida' ELSE wb'
           origen == IF modo = "stream" THEN HojaMaestro(Hoja)[fila]
                     ELSE wb.hojas[Hoja][fila]
       IN  /\ despues.sheetnames = antes.sheetnames
           /\ IF modo = "stream" THEN wb' = wb ELSE wb_salida' = wb_salida
           /\ \A n \in Nombres \ {Hoja} : despues.hojas[n] = antes.hojas[n]
           /\ Len(despues.hojas[Hoja])
                = (IF modo = "stream" THEN fila ELSE Len(antes.hojas[Hoja]))
           /\ \A r \in 1..Len(despues.hojas[Hoja]) :
                IF r = fila
                THEN FilaCambiada(despues.hojas[Hoja][r], origen)
                ELSE despues.hojas[Hoja][r] = antes.hojas[Hoja][r]
  ]_vars

\* A 4-cell row was written up to column M in place, after another row of
\* the same sheet.
C17_Witness ==
  /\ modo = "inplace"
  /\ ImpresaCon("EDU", FILA_INICIO_DATOS + 1, <<"A">>, "Copiado")
  /\ Len(HojaMaestro("EDU")[FILA_INICIO_DATOS + 1]) = COL_CODIGO
  /\ Len(wb.hojas["EDU"][FILA_INICIO_DATOS + 1]) = 13
  /\ ImpresaCon("EDU", FILA_INICIO_DATOS, <<"D">>, "Copiado")

\* Steps one target sheet can take at most: one to enter it, one per row
\* up to the row past the last one, one to leave it.
PasosPorHoja == UltimaFila + 3

\* Steps the run can still take, as a bound that every step lowers.
Medida ==
  CASE pc = "inicio" -> Len(HOJAS_OBJETIVO) * PasosPorHoja + 4
    [] pc = "cargar" -> Len(HOJAS_OBJETIVO) * PasosPorHoja + 3
    [] pc = "hojas" -> (Len(HOJAS_OBJETIVO) + 1 - hojaIdx) * PasosPorHoja + 2
    [] pc = "filas" -> (Len(HOJAS_OBJETIVO) + 1 - hojaIdx) * PasosPorHoja + 1 - fila
    [] pc = "guardar" -> 1
    [] pc = "fin" -> 0

\* The step ends the pass over the sheet in course normally.
FinDePasada == pc = "filas" /\ pc' = "hojas"

\* The run has a next step.  Inside a sheet the row actions are total once
\* their guard holds, so the guards are what is asked there.
HayPaso ==
  IF pc = "filas"
  THEN \/ modo \in {"inplace", "link"}
       \/ modo = "stream" /\ fila <= Len(HojaMaestro(Hoja))
       \/ ENABLED FinHojaStream
  ELSE ENABLED Next

\* What C18 asks of every state the run passes through.
EnCamino ==
  /\ Medida \in Nat
  /\ pc # "fin" => HayPaso
  /\ pc = "filas" => fila <= UltimaFila + 1
  /\ pc = "fin" => (guardado \/ fatal # "no")

\* C18: for every master file every step of the run lowers a bound that
\* never goes below zero, and a run that has not ended always has a next
\* step: the pass over each sheet ends and the run ends, after the save step
\* or on a fatal path.  A row step advances exactly one row; the in-place
\* and link loops end at the first empty code cell, at the latest on the row
\* past the last one, and the streaming loop ends past the last source row.
C18_Termina ==
  [][/\ EnCamino /\ EnCamino'
     /\ Medida' < Medida
     /\ (pc = "filas" /\ pc' = "filas") => fila' = fila + 1
     /\ FinDePasada =>
          /\ hojaIdx' = hojaIdx + 1
          /\ fila = (IF modo = "stream" THEN UltimaFila + 1 ELSE PrimerVacio)
     /\ (pc' = "fin" /\ fatal' \in {"no", "guardar"}) => ListoParaGuardar
  ]_vars

\* An in-place pass over rows that all carry a code ended on the row past the
\* last one, and the run ended after its save step.
C18_Witness ==
  /\ modo = "inplace"
  /\ pc = "fin"
  /\ guardado
  /\ Len(datos) = 2
  /\ PrimerVacio = UltimaFila + 1
  /\ Impresa("EMPRESA", UltimaFila)

====
